---------------------------- MODULE Spec2Model ----------------------------
(***************************************************************************)
(* File Size Analyzer: the batch optimizer (compressDirectory,             *)
(* compressAudioDirectory), the per-file compression calls (compressImage, *)
(* compressAudio, the single-file resize), the scanner (scanDirectory,     *)
(* getFileType), the estimates and the HTTP handlers that expose them,     *)
(* modelled over a small file system.                                      *)
(*                                                                         *)
(* Paths and file names are strings, handled character by character the    *)
(* way node's path module handles them.                                    *)
(***************************************************************************)
EXTENDS Integers, Sequences, FiniteSets, TLC

(***************************************************************************)
(* Bounds of the model.                                                    *)
(***************************************************************************)
\* sizes a codec may produce for a re-encoded file: 1..MaxNewSize
MaxNewSize == 2

(***************************************************************************)
(* Strings.                                                                *)
(***************************************************************************)
Ch(s, i) == SubSeq(s, i, i)

RECURSIVE LastIndexOf(_, _, _)
\* the largest j <= i with s[j] = c, or 0
LastIndexOf(s, c, i) ==
    IF i = 0 THEN 0
    ELSE IF Ch(s, i) = c THEN i
    ELSE LastIndexOf(s, c, i - 1)

startsWith(s, p) == Len(p) <= Len(s) /\ SubSeq(s, 1, Len(p)) = p

endsWith(s, p) == Len(p) <= Len(s) /\ SubSeq(s, Len(s) - Len(p) + 1, Len(s)) = p

UpperChars == "ABCDEFGHIJKLMNOPQRSTUVWXYZ"
LowerChars == "abcdefghijklmnopqrstuvwxyz"

\* the lower-case letter of every upper-case letter
LowerMap ==
    [c \in {Ch(UpperChars, i) : i \in 1..Len(UpperChars)} |->
        Ch(LowerChars, CHOOSE i \in 1..Len(UpperChars) : Ch(UpperChars, i) = c)]

LowerCh(c) == IF c \in DOMAIN LowerMap THEN LowerMap[c] ELSE c

RECURSIVE toLowerCase(_)
toLowerCase(s) ==
    IF Len(s) = 0 THEN ""
    ELSE LowerCh(Ch(s, 1)) \o toLowerCase(SubSeq(s, 2, Len(s)))

\* String.prototype.replace('.', ''): removes the first dot
replaceDot(s) ==
    IF \E i \in 1..Len(s) : Ch(s, i) = "."
    THEN LET i == CHOOSE k \in 1..Len(s) :
                      Ch(s, k) = "." /\ \A j \in 1..(k - 1) : Ch(s, j) # "."
         IN  SubSeq(s, 1, i - 1) \o SubSeq(s, i + 1, Len(s))
    ELSE s

(***************************************************************************)
(* node's path module (POSIX flavour), on normalized absolute paths.       *)
(***************************************************************************)
\* path.basename(p)
basename(p) == SubSeq(p, LastIndexOf(p, "/", Len(p)) + 1, Len(p))

\* path.dirname(p)
dirname(p) ==
    LET i == LastIndexOf(p, "/", Len(p))
    IN  IF i <= 1 THEN "/" ELSE SubSeq(p, 1, i - 1)

\* path.extname(p): from the last dot of the base name, "" when there is no
\* dot or the only dot is the first character
extname(p) ==
    LET b == basename(p)
        i == LastIndexOf(b, ".", Len(b))
    IN  IF i <= 1 \/ b = ".." THEN "" ELSE SubSeq(b, i, Len(b))

\* path.basename(p, ext): the suffix is removed when the base name ends with
\* it (compared case-sensitively) and is not equal to it
basenameExt(p, ext) ==
    LET b == basename(p)
    IN  IF ext # "" /\ b # ext /\ endsWith(b, ext)
        THEN SubSeq(b, 1, Len(b) - Len(ext))
        ELSE b

\* path.join(dir, name) for a normalized dir and a plain name
join(dir, name) == IF dir = "/" THEN "/" \o name ELSE dir \o "/" \o name

RECURSIVE SplitPath(_, _, _, _)
\* the "/"-separated segments of s (empty segments included)
SplitPath(s, i, cur, acc) ==
    IF i > Len(s) THEN Append(acc, cur)
    ELSE IF Ch(s, i) = "/" THEN SplitPath(s, i + 1, "", Append(acc, cur))
    ELSE SplitPath(s, i + 1, cur \o Ch(s, i), acc)

RECURSIVE NormSegs(_, _)
\* drops "" and ".", lets ".." remove the segment before it
NormSegs(segs, acc) ==
    IF segs = << >> THEN acc
    ELSE LET h == Head(segs)
         IN  IF h = "" \/ h = "." THEN NormSegs(Tail(segs), acc)
             ELSE IF h = ".."
             THEN NormSegs(Tail(segs),
                           IF acc = << >> THEN acc ELSE SubSeq(acc, 1, Len(acc) - 1))
             ELSE NormSegs(Tail(segs), Append(acc, h))

RECURSIVE JoinSegs(_)
JoinSegs(segs) ==
    IF segs = << >> THEN ""
    ELSE "/" \o Head(segs) \o JoinSegs(Tail(segs))

\* the components of an absolute path
Segments(p) == NormSegs(SplitPath(p, 1, "", << >>), << >>)

isAbsolute(p) == startsWith(p, "/")

\* path.resolve(p)
resolve1(p) ==
    LET s == JoinSegs(Segments(p)) IN IF s = "" THEN "/" ELSE s

\* path.resolve(base, p): p itself when absolute, else base/p; normalized
resolve(base, p) ==
    IF isAbsolute(p) THEN resolve1(p) ELSE resolve1(base \o "/" \o p)

\* path.relative(from, to) for `to` equal to or below `from`
relative(from, to) ==
    IF to = from THEN ""
    ELSE SubSeq(to, Len(from) + 2, Len(to))

\* the path lies in the subtree of root, compared component by component
WithinTree(root, p) ==
    LET r == Segments(root)
        q == Segments(p)
    IN  Len(r) <= Len(q) /\ SubSeq(q, 1, Len(r)) = r


(***************************************************************************)
(* The file system: fs maps the path of every existing regular file to its *)
(* content.  A content is its byte length, the format a decoder finds in   *)
(* the bytes, the pixel dimensions (0 for audio), and who produced the     *)
(* bytes from which file (by, src): two contents are the same bytes        *)
(* exactly when the records are equal.                                     *)
(***************************************************************************)
Content(size, fmt, w, h, by, src) ==
    [size |-> size, fmt |-> fmt, w |-> w, h |-> h, by |-> by, src |-> src]

exists(fsys, p) == p \in DOMAIN fsys

Put(fsys, p, c) == (p :> c) @@ fsys

Remove(fsys, p) == [q \in (DOMAIN fsys) \ {p} |-> fsys[q]]

\* what fs.writeFile leaves behind when it fails after opening the file:
\* the file is truncated on open and holds the bytes written so far
Partial(written, p) == Content(written, "corrupt", 0, 0, "partial", p)

\* the formats sharp decodes in this model; metadata() throws on the rest
SharpFormats == {"png", "jpeg", "webp", "gif"}

\* the formats ffmpeg reads in this model
AudioFormats == {"wav", "mp3", "ogg"}

null == ""

(***************************************************************************)
(* compressImage (src/app.js 616-692).                                     *)
(* env is what the environment decides during the call: the step that      *)
(* fails (failAt), the length of the re-encoded buffer (newSize) and, for  *)
(* a write that fails half way, the bytes that reached the disk (written). *)
(***************************************************************************)
\* mutant: the catch block lets the error escape instead of returning it
ImageFailure_Rethrow(message) == [error |-> message]

\* mutant: a failure reports a size it did not save
ImageFailure_KeepsSize(message) ==
    [success |-> FALSE, error |-> message, originalSize |-> 1, newSize |-> 0,
     saved |-> 0]

ImageFailure(message) ==
    [success |-> FALSE, error |-> message, originalSize |-> 0, newSize |-> 0,
     saved |-> 0]

\* src/app.js 641-657: the formats compressImage re-encodes
Encodable(format) == format \in {"png", "jpeg", "jpg", "webp"}

\* mutant: a buffer of the same length is written too
ShouldWrite_OrEqual(newSize, originalSize) == newSize <= originalSize

\* src/app.js 664: the buffer is written only if it is smaller
ShouldWrite(newSize, originalSize) == newSize < originalSize

\* src/app.js 633-638: resize to fit inside maxWidth x maxHeight, never
\* enlarging; a null bound does not constrain
FitInside(w, h, maxWidth, maxHeight) ==
    LET bw == IF maxWidth = 0 \/ maxWidth > w THEN w ELSE maxWidth
        bh == IF maxHeight = 0 \/ maxHeight > h THEN h ELSE maxHeight
    IN  IF bw * h <= bh * w
        THEN [w |-> bw, h |-> IF (bw * h) \div w = 0 THEN 1 ELSE (bw * h) \div w]
        ELSE [w |-> IF (bh * w) \div h = 0 THEN 1 ELSE (bh * w) \div h, h |-> bh]

compressImage(fsys, filePath, options, env) ==
    IF ~exists(fsys, filePath) \/ env.failAt = "stat"
    THEN [fs |-> fsys, result |-> ImageFailure("stat")]
    ELSE
    LET file == fsys[filePath]
        originalSize == file.size
    IN
    IF file.fmt \notin SharpFormats \/ env.failAt = "metadata"
    THEN [fs |-> fsys, result |-> ImageFailure("metadata")]
    ELSE IF ~Encodable(file.fmt)
    THEN [fs |-> fsys,
          result |-> [success |-> TRUE, originalSize |-> originalSize,
                      newSize |-> originalSize, saved |-> 0, skipped |-> TRUE,
                      reason |-> "Unsupported format for compression"]]
    ELSE IF env.failAt = "toBuffer"
    THEN [fs |-> fsys, result |-> ImageFailure("toBuffer")]
    ELSE
    LET newSize == env.newSize
        dims == IF options.maxWidth # 0 \/ options.maxHeight # 0
                THEN FitInside(file.w, file.h, options.maxWidth, options.maxHeight)
                ELSE [w |-> file.w, h |-> file.h]
        buffer == Content(newSize, file.fmt, dims.w, dims.h, "sharp", file.src)
    IN
    IF ShouldWrite(newSize, originalSize)
    THEN IF env.failAt = "write_open"
         THEN [fs |-> fsys, result |-> ImageFailure("writeFile")]
         ELSE IF env.failAt = "write_partial"
         THEN [fs |-> Put(fsys, filePath, Partial(env.written, filePath)),
               result |-> ImageFailure("writeFile")]
         ELSE [fs |-> Put(fsys, filePath, buffer),
               result |-> [success |-> TRUE, originalSize |-> originalSize,
                           newSize |-> newSize, saved |-> originalSize - newSize,
                           skipped |-> FALSE]]
    ELSE [fs |-> fsys,
          result |-> [success |-> TRUE, originalSize |-> originalSize,
                      newSize |-> originalSize, saved |-> 0, skipped |-> TRUE,
                      reason |-> "Compressed version is larger"]]

\* what the environment can decide during one compressImage call
ImageEnv ==
    [failAt : {"none", "stat", "metadata", "toBuffer", "write_open"},
     newSize : 1..MaxNewSize, written : {0}]
    \cup {e \in [failAt : {"write_partial"}, newSize : 1..MaxNewSize,
                  written : 0..(MaxNewSize - 1)] : e.written < e.newSize}

(***************************************************************************)
(* compressAudio (src/src/audioCompressor.js 51-177).                      *)
(***************************************************************************)
AudioFailure(message) ==
    [success |-> FALSE, error |-> message, originalSize |-> 0, newSize |-> 0,
     saved |-> 0]

\* audioCompressor.js 66-76: the output format
OutputFormat(format, ext) ==
    IF format # null THEN format
    ELSE IF ext = ".wav" THEN "mp3"
    ELSE replaceDot(ext)

\* audioCompressor.js 78-81: the temporary sibling file
TempOutput(filePath, ext, outputFormat) ==
    join(dirname(filePath), basenameExt(filePath, ext) \o "_temp." \o outputFormat)

\* audioCompressor.js 128-130: where the transcoded file ends up
FinalPath(filePath, ext, outputFormat) ==
    IF outputFormat # replaceDot(ext)
    THEN join(dirname(filePath), basenameExt(filePath, ext) \o "." \o outputFormat)
    ELSE filePath

\* mutant: only a smaller file replaces the original
Beneficial_SizeOnly(newSize, originalSize, outputFormat, ext) ==
    newSize < originalSize

\* audioCompressor.js 126: replace the original?
Beneficial(newSize, originalSize, outputFormat, ext) ==
    newSize < originalSize \/ outputFormat # replaceDot(ext)

\* audioCompressor.js 168-176: the catch block returns the failure and
\* touches no file
AudioCatch(fsys, tempOutput, message) ==
    [fs |-> fsys, result |-> AudioFailure(message)]

compressAudio(fsys, filePath, options, env) ==
    IF ~exists(fsys, filePath) \/ env.failAt = "stat"
    THEN [fs |-> fsys, result |-> AudioFailure("stat")]
    ELSE
    LET file == fsys[filePath]
        originalSize == file.size
        ext == toLowerCase(extname(filePath))
        outputFormat == OutputFormat(options.format, ext)
        tempOutput == TempOutput(filePath, ext, outputFormat)
        newSize == env.newSize
        transcoded == Content(newSize, outputFormat, 0, 0, "ffmpeg", file.src)
    IN
    \* ffmpeg(filePath)...save(tempOutput), which overwrites tempOutput
    IF file.fmt \notin AudioFormats \/ env.failAt = "transcode_clean"
    THEN AudioCatch(fsys, tempOutput, "ffmpeg")
    ELSE IF env.failAt = "transcode_partial"
    THEN AudioCatch(Put(fsys, tempOutput, Partial(env.written, filePath)),
                    tempOutput, "ffmpeg")
    ELSE
    LET fs1 == Put(fsys, tempOutput, transcoded) IN
    IF env.failAt = "tempStat"
    THEN AudioCatch(fs1, tempOutput, "stat")
    ELSE IF Beneficial(newSize, originalSize, outputFormat, ext)
    THEN LET finalPath == FinalPath(filePath, ext, outputFormat)
             converted == outputFormat # replaceDot(ext)
         IN  IF ~exists(fs1, filePath) \/ env.failAt = "unlink"
             THEN AudioCatch(fs1, tempOutput, "unlink")
             ELSE
             LET fs2 == Remove(fs1, filePath) IN
             IF ~exists(fs2, tempOutput) \/ env.failAt = "rename"
             THEN AudioCatch(fs2, tempOutput, "rename")
             ELSE [fs |-> Put(Remove(fs2, tempOutput), finalPath, fs2[tempOutput]),
                   result |-> [success |-> TRUE, originalSize |-> originalSize,
                               newSize |-> newSize,
                               saved |-> originalSize - newSize,
                               skipped |-> FALSE,
                               originalFormat |-> replaceDot(ext),
                               newFormat |-> outputFormat,
                               converted |-> converted,
                               newPath |-> IF converted THEN finalPath ELSE filePath]]
    ELSE IF env.failAt = "unlinkTemp"
         THEN AudioCatch(fs1, tempOutput, "unlink")
         ELSE [fs |-> Remove(fs1, tempOutput),
               result |-> [success |-> TRUE, originalSize |-> originalSize,
                           newSize |-> originalSize, saved |-> 0,
                           skipped |-> TRUE,
                           reason |-> "Compressed version is larger",
                           originalFormat |-> replaceDot(ext),
                           newFormat |-> outputFormat,
                           converted |-> FALSE]]

\* the files a compressAudio call works on: the input, the temp file, the
\* final file
AudioTouched(filePath, format) ==
    LET ext == toLowerCase(extname(filePath))
        outputFormat == OutputFormat(format, ext)
    IN  {filePath, TempOutput(filePath, ext, outputFormat),
         FinalPath(filePath, ext, outputFormat)}

\* what the environment can decide during one compressAudio call
AudioEnv ==
    [failAt : {"none", "stat", "transcode_clean", "tempStat", "unlink", "rename",
               "unlinkTemp"},
     newSize : 1..MaxNewSize, written : {0}]
    \cup [failAt : {"transcode_partial"}, newSize : {1},
          written : 0..(MaxNewSize - 1)]

(***************************************************************************)
(* State.                                                                  *)
(***************************************************************************)
VARIABLES
    ROOT_DIR,     \* the server's current root (part_001 line 15)
    fs,           \* the regular files: path -> content
    dirs,         \* the directories that exist
    unreadable,   \* the directories whose readdir fails
    fs0,          \* history: the files when the model starts
    api,          \* the single-shot request being answered, and its answer
    accessed,     \* the paths on which the request did file I/O
    bpc,          \* where the batch request is
    kind,         \* "image" (/api/compress/run) or "audio" (/api/audio/compress)
    compressDir,  \* the directory the batch handler resolved
    options,      \* the options of the batch request
    results,      \* the results object of compressDirectory
    stack,        \* the active scanDir calls: directory, entries, position
    events,       \* what the batch handler wrote to the response so far
    ended,        \* res.end() was called on the batch response
    httpStatus,   \* the status the batch handler sent, 0 before writeHead
    lastCall      \* the last compression call of the batch: path, files before
                  \* and after, result

envVars == <<ROOT_DIR, fs, dirs, unreadable, fs0>>
apiVars == <<api, accessed>>
batchVars == <<bpc, kind, compressDir, options, results, stack, events, ended,
               httpStatus, lastCall>>
vars == <<ROOT_DIR, fs, dirs, unreadable, fs0, api, accessed, bpc, kind, compressDir,
          options, results, stack, events, ended, httpStatus, lastCall>>

(***************************************************************************)
(* The file systems the model starts from.  Every file of a tree has size  *)
(* sz or sz + 1; /rx is a sibling of the initial root /r whose name starts *)
(* with the root's name.                                                   *)
(***************************************************************************)
\* initial file sizes: sz in 1..MaxSize
MaxSize == 1

Orig(p, size, fmt, w, h) == Content(size, fmt, w, h, "orig", p)

Image(p, size, fmt) == Orig(p, size, fmt, 4, 2)

Audio(p, size, fmt) == Orig(p, size, fmt, 0, 0)

InitialRoot == "/r"

AllDirs == {"/", "/r", "/r/s", "/r/.h", "/rx", "/etc"}

\* images and audio files in the root, in a subdirectory and in a hidden
\* directory, a text file, and files outside the root
Tree(sz) ==
    ("/r/a.png" :> Image("/r/a.png", sz + 1, "png"))
    @@ ("/r/b.wav" :> Audio("/r/b.wav", sz + 1, "wav"))
    @@ ("/r/m.mp3" :> Audio("/r/m.mp3", sz, "mp3"))
    @@ ("/r/g.gif" :> Image("/r/g.gif", sz + 1, "gif"))
    @@ ("/r/n.txt" :> Orig("/r/n.txt", sz, "text", 0, 0))
    @@ ("/r/s/C.PNG" :> Image("/r/s/C.PNG", sz, "png"))
    @@ ("/r/s/K.WAV" :> Audio("/r/s/K.WAV", sz, "wav"))
    @@ ("/r/.h/e.webp" :> Image("/r/.h/e.webp", sz, "webp"))
    @@ ("/rx/x.png" :> Image("/rx/x.png", sz, "png"))
    @@ ("/etc/p.wav" :> Audio("/etc/p.wav", sz, "wav"))

Trees == {Tree(sz) : sz \in 1..MaxSize}

NoCall == [path |-> "", before |-> << >>, after |-> << >>, result |-> << >>]

NoApi == [pc |-> "idle"]

NoOptions == [json |-> TRUE, targetPath |-> null, format |-> null]

EmptyResults ==
    [total |-> 0, compressed |-> 0, converted |-> 0, skipped |-> 0, failed |-> 0,
     originalSize |-> 0, newSize |-> 0, savedSize |-> 0, files |-> << >>]

InitEnv ==
    /\ ROOT_DIR = InitialRoot
    /\ fs \in Trees
    /\ fs0 = fs
    /\ dirs = AllDirs
    /\ unreadable \in {{}, {"/r/s"}}

InitApi ==
    /\ api = NoApi
    /\ accessed = {}

InitBatch ==
    /\ bpc = "idle"
    /\ kind = "none"
    /\ compressDir = ""
    /\ options = NoOptions
    /\ results = EmptyResults
    /\ stack = << >>
    /\ events = << >>
    /\ ended = FALSE
    /\ httpStatus = 0
    /\ lastCall = NoCall

Init == InitEnv /\ InitApi /\ InitBatch

(***************************************************************************)
(* fs.readdir(dir, {withFileTypes: true}): the entries of dir in listing   *)
(* order.  ListingOrder is the order in which the file system of the model *)
(* lists names.                                                            *)
(***************************************************************************)
ListingOrder ==
    <<"a.png", "b.wav", "b_temp.mp3", "b_temp.ogg", "b.mp3", "b.ogg", "g.gif", "m.mp3",
      "m_temp.mp3", "m_temp.ogg", "m.ogg", "n.txt", "s", ".h", "C.PNG", "K.WAV",
      "K.WAV_temp.mp3", "K.WAV_temp.ogg", "K.WAV.mp3", "K.WAV.ogg", "e.webp",
      "x.png", "p.wav", "p_temp.mp3", "p_temp.ogg", "p.mp3", "p.ogg", "r", "rx",
      "etc", "o.ogg", "meta", "node_modules", "t", "d.json", "i.js">>

isDirectory(p) == p \in dirs

\* mutant: the listing leaves out the subdirectories
readdir_FilesOnly(fsys, dir) ==
    LET present(name) == exists(fsys, join(dir, name))
        names == SelectSeq(ListingOrder, present)
    IN  [k \in 1..Len(names) |-> [name |-> names[k], isDirectory |-> FALSE]]

readdir(fsys, dir) ==
    LET present(name) == LET p == join(dir, name)
                         IN  (p \in dirs /\ p # dir) \/ exists(fsys, p)
        names == SelectSeq(ListingOrder, present)
    IN  [k \in 1..Len(names) |->
            [name |-> names[k], isDirectory |-> join(dir, names[k]) \in dirs]]

readdirFails(dir) == dir \notin dirs \/ dir \in unreadable

(***************************************************************************)
(* The batch: compressDirectory (src/app.js 701-761) and                   *)
(* compressAudioDirectory (src/src/audioCompressor.js 186-250), run by the *)
(* handlers of /api/compress/run and /api/audio/compress.                  *)
(***************************************************************************)
\* mutant: the image batch also takes .wav files
imageExtensions_WithWav == {".png", ".jpg", ".jpeg", ".webp", ".wav"}

imageExtensions == {".png", ".jpg", ".jpeg", ".webp"}

audioExtensions == {".mp3", ".ogg", ".wav", ".m4a"}

\* app.js 723-724, audioCompressor.js 209-210: the extension filter
Matches(k, name) ==
    LET ext == toLowerCase(extname(name))
    IN  IF k = "image" THEN ext \in imageExtensions ELSE ext \in audioExtensions

\* mutant: the running count is taken before the file is counted
Progress_ZeroBased(res, rootDir, fullPath) ==
    [current |-> res.total - 1, file |-> relative(rootDir, fullPath)]

\* mutant: the path is taken relative to the server's current root
Progress_FromRoot(res, rootDir, fullPath) ==
    [current |-> res.total, file |-> relative(ROOT_DIR, fullPath)]

\* app.js 728-731: the progress event of the file about to be compressed
Progress(res, rootDir, fullPath) ==
    [current |-> res.total, file |-> relative(rootDir, fullPath)]

\* part_001 442-444, 556-558: the progress callback writes one event
ProgressEvent(progress) ==
    [type |-> "progress", current |-> progress.current, file |-> progress.file]

\* a field of a result that may be absent (undefined is falsy)
Flag(result, field) == IF field \in DOMAIN result THEN result[field] ELSE FALSE

\* mutant: a failed file is recorded in files but not counted in failed
Fold_NoFailed(k, res, result, rootDir, fullPath) ==
    LET ok == result.success
        skip == Flag(result, "skipped")
    IN  [res EXCEPT
            !.originalSize = @ + result.originalSize,
            !.newSize = @ + result.newSize,
            !.savedSize = @ + result.saved,
            !.skipped = IF ok /\ skip THEN @ + 1 ELSE @,
            !.compressed = IF ok /\ ~skip THEN @ + 1 ELSE @,
            !.files = Append(@, [path |-> relative(rootDir, fullPath),
                                 result |-> result])]

\* mutant: a skipped file is counted as compressed
Fold_SkipAsCompressed(k, res, result, rootDir, fullPath) ==
    LET ok == result.success
    IN  [res EXCEPT
            !.originalSize = @ + result.originalSize,
            !.newSize = @ + result.newSize,
            !.savedSize = @ + result.saved,
            !.compressed = IF ok THEN @ + 1 ELSE @,
            !.failed = IF ok THEN @ ELSE @ + 1,
            !.files = Append(@, [path |-> relative(rootDir, fullPath),
                                 result |-> result])]

\* mutant: the newest outcome is put in front of files
Fold_Prepend(k, res, result, rootDir, fullPath) ==
    LET ok == result.success
        skip == Flag(result, "skipped")
    IN  [res EXCEPT
            !.originalSize = @ + result.originalSize,
            !.newSize = @ + result.newSize,
            !.savedSize = @ + result.saved,
            !.skipped = IF ok /\ skip THEN @ + 1 ELSE @,
            !.compressed = IF ok /\ ~skip THEN @ + 1 ELSE @,
            !.failed = IF ok THEN @ ELSE @ + 1,
            !.files = <<[path |-> relative(rootDir, fullPath), result |-> result]>> \o @]

\* mutant: a failed file is counted but gets no entry in files
Fold_DropFailedEntry(k, res, result, rootDir, fullPath) ==
    LET ok == result.success
        skip == Flag(result, "skipped")
    IN  [res EXCEPT
            !.originalSize = @ + result.originalSize,
            !.newSize = @ + result.newSize,
            !.savedSize = @ + result.saved,
            !.skipped = IF ok /\ skip THEN @ + 1 ELSE @,
            !.compressed = IF ok /\ ~skip THEN @ + 1 ELSE @,
            !.failed = IF ok THEN @ ELSE @ + 1,
            !.files = IF ok THEN Append(@, [path |-> relative(rootDir, fullPath),
                                            result |-> result])
                      ELSE @]

\* app.js 736-753, audioCompressor.js 222-242: one outcome folded into results
Fold(k, res, result, rootDir, fullPath) ==
    LET ok == result.success
        skip == Flag(result, "skipped")
    IN  [res EXCEPT
            !.originalSize = @ + result.originalSize,
            !.newSize = @ + result.newSize,
            !.savedSize = @ + result.saved,
            !.skipped = IF ok /\ skip THEN @ + 1 ELSE @,
            !.compressed = IF ok /\ ~skip THEN @ + 1 ELSE @,
            !.converted = IF k = "audio" /\ ok /\ ~skip /\ Flag(result, "converted")
                          THEN @ + 1 ELSE @,
            !.failed = IF ok THEN @ ELSE @ + 1,
            !.files = Append(@, [path |-> relative(rootDir, fullPath),
                                 result |-> result])]

\* part_001 446-449, 560-568: the batch returned
OnReturned(evs, res) ==
    [events |-> Append(evs, [type |-> "complete", results |-> res]),
     ended |-> TRUE]

\* mutant: the catch branch writes the error event and leaves the stream open
OnThrown_NoEnd(evs, message) ==
    [events |-> Append(evs, [type |-> "error", error |-> message]),
     ended |-> FALSE]

\* part_001 450-453, 569-572: the batch threw
OnThrown(evs, message) ==
    [events |-> Append(evs, [type |-> "error", error |-> message]),
     ended |-> TRUE]

\* part_001 82, 117, 207, 364, 419, 503: the security check
PathCheck(fullPath, root) == startsWith(fullPath, root)

\* the bodies a batch request may carry: one that is not JSON (json is
\* FALSE), or options with a targetPath and a format, either of which may be
\* absent (null); the empty body stands for no option at all
TargetPaths == {null, "s", "../rx", "/etc", "nope"}

BatchBodies ==
    {[json |-> FALSE, targetPath |-> null, format |-> null]}
    \cup [json : {TRUE}, targetPath : TargetPaths, format : {null, "ogg"}]

Frame(dir) == [dir |-> dir, read |-> FALSE, entries |-> << >>, i |-> 1]

Top == stack[Len(stack)]

CurrentPath == join(Top.dir, Top.entries[Top.i].name)

\* part_001 404-445 and 527-558: the request arrives and its body is read
BatchRequest(k, body) ==
    /\ bpc = "idle"
    /\ api.pc = "idle"
    /\ kind' = k
    /\ UNCHANGED <<envVars, api, results, lastCall>>
    /\ IF ~body.json
       THEN \* JSON.parse throws inside the 'end' callback: nothing is sent
            /\ bpc' = "crashed"
            /\ UNCHANGED <<compressDir, options, stack, events, ended, httpStatus,
                           accessed>>
       ELSE
       LET opts == body
           target == IF opts.targetPath # null
                     THEN resolve(ROOT_DIR, opts.targetPath) ELSE ROOT_DIR
       IN  /\ options' = opts
           /\ events' = << >>
           /\ IF k = "image" /\ opts.targetPath # null /\ ~PathCheck(target, ROOT_DIR)
              THEN /\ httpStatus' = 403
                   /\ ended' = TRUE
                   /\ bpc' = "rejected"
                   /\ UNCHANGED <<compressDir, stack, accessed>>
              ELSE IF opts.targetPath # null /\ ~(target \in dirs \/ exists(fs, target))
              THEN /\ httpStatus' = 400
                   /\ ended' = TRUE
                   /\ bpc' = "rejected"
                   /\ accessed' = {target}
                   /\ UNCHANGED <<compressDir, stack>>
              ELSE /\ httpStatus' = 200
                   /\ accessed' = IF opts.targetPath # null THEN {target} ELSE {}
                   /\ ended' = FALSE
                   /\ compressDir' = target
                   /\ stack' = <<Frame(target)>>
                   /\ bpc' = "walking"

\* app.js 715, audioCompressor.js 201: readdir of the innermost scanDir
\* answers; a failure propagates out of every scanDir and out of the batch
ReadDir ==
    /\ bpc = "walking"
    /\ ~Top.read
    /\ accessed' = accessed \cup {Top.dir}
    /\ UNCHANGED <<envVars, api, kind, compressDir, options, results,
                   httpStatus, lastCall>>
    /\ IF readdirFails(Top.dir)
       THEN LET out == OnThrown(events, "readdir")
            IN  /\ events' = out.events
                /\ ended' = out.ended
                /\ stack' = << >>
                /\ bpc' = "closed"
       ELSE /\ stack' = [stack EXCEPT ![Len(stack)] =
                            [@ EXCEPT !.read = TRUE, !.entries = readdir(fs, Top.dir)]]
            /\ UNCHANGED <<events, ended, bpc>>

\* app.js 717-732: the loop looks at the next entry
Step ==
    /\ bpc = "walking"
    /\ Top.read
    /\ Top.i <= Len(Top.entries)
    /\ UNCHANGED <<envVars, apiVars, kind, compressDir, options, ended,
                   httpStatus, lastCall>>
    /\ LET entry == Top.entries[Top.i]
       IN  IF entry.isDirectory
           THEN /\ stack' = Append(stack, Frame(CurrentPath))
                /\ UNCHANGED <<results, events, bpc>>
           ELSE IF Matches(kind, entry.name)
           THEN LET counted == [results EXCEPT !.total = @ + 1]
                IN  /\ results' = counted
                    /\ events' = Append(events,
                           ProgressEvent(Progress(counted, compressDir, CurrentPath)))
                    /\ bpc' = "compressing"
                    /\ UNCHANGED stack
           ELSE /\ stack' = [stack EXCEPT ![Len(stack)] = [@ EXCEPT !.i = @ + 1]]
                /\ UNCHANGED <<results, events, bpc>>

\* the options each batch hands to its compression call
\* (part_001 447 and 561-566)
CallOptions(k, opts) ==
    IF k = "image"
    THEN [quality |-> 80, maxWidth |-> 0, maxHeight |-> 0]
    ELSE [bitrate |-> "96k", sampleRate |-> null, channels |-> null,
          format |-> opts.format]

\* app.js 734-753, audioCompressor.js 220-242: the compression call answers
CompressReturn(env) ==
    /\ bpc = "compressing"
    /\ LET out == IF kind = "image"
                  THEN compressImage(fs, CurrentPath, CallOptions(kind, options), env)
                  ELSE compressAudio(fs, CurrentPath, CallOptions(kind, options), env)
       IN  /\ fs' = out.fs
           /\ accessed' = accessed \cup
                  (IF kind = "image" THEN {CurrentPath}
                   ELSE AudioTouched(CurrentPath, CallOptions(kind, options).format))
           /\ lastCall' = [path |-> CurrentPath, before |-> fs, after |-> out.fs,
                           result |-> out.result]
           /\ IF "success" \in DOMAIN out.result
              THEN /\ results' = Fold(kind, results, out.result, compressDir, CurrentPath)
                   /\ stack' = [stack EXCEPT ![Len(stack)] = [@ EXCEPT !.i = @ + 1]]
                   /\ bpc' = "walking"
                   /\ UNCHANGED <<events, ended>>
              ELSE \* the call rejected: the batch throws
                   LET thrown == OnThrown(events, out.result.error)
                   IN  /\ events' = thrown.events
                       /\ ended' = thrown.ended
                       /\ stack' = << >>
                       /\ bpc' = "closed"
                       /\ UNCHANGED results
    /\ UNCHANGED <<ROOT_DIR, dirs, unreadable, fs0, api, kind, compressDir,
                   options, httpStatus>>

\* app.js 756-760: a scanDir call has looked at all its entries and returns;
\* when it is the outermost one the batch returns its results
Return ==
    /\ bpc = "walking"
    /\ Top.read
    /\ Top.i > Len(Top.entries)
    /\ UNCHANGED <<envVars, apiVars, kind, compressDir, options, results,
                   httpStatus, lastCall>>
    /\ IF Len(stack) = 1
       THEN LET out == OnReturned(events, results)
            IN  /\ events' = out.events
                /\ ended' = out.ended
                /\ stack' = << >>
                /\ bpc' = "closed"
       ELSE /\ stack' = [SubSeq(stack, 1, Len(stack) - 1) EXCEPT
                            ![Len(stack) - 1] = [@ EXCEPT !.i = @ + 1]]
            /\ UNCHANGED <<events, ended, bpc>>

CompressEnv == IF kind = "image" THEN ImageEnv ELSE AudioEnv

Next ==
    \/ \E k \in {"image", "audio"}, body \in BatchBodies :
          /\ k = "image" => body.format = null
          /\ BatchRequest(k, body)
    \/ ReadDir
    \/ Step
    \/ \E env \in CompressEnv : CompressReturn(env)
    \/ Return

Spec == Init /\ [][Next]_vars

(***************************************************************************)
(* The single-shot handlers of part_001 (the server): each reads its body, *)
(* resolves the path against ROOT_DIR, checks it, does its work and        *)
(* answers.  A handler is a function of the root, the files, the body and  *)
(* what the environment decides; it yields the answer, the files and the   *)
(* paths it did file I/O on.                                               *)
(***************************************************************************)
Answer(status, body, fsys, touched, fullPath, checked) ==
    [status |-> status, body |-> body, fs |-> fsys, accessed |-> touched,
     fullPath |-> fullPath, checked |-> checked]

InvalidPath(fsys, fullPath) ==
    Answer(403, [success |-> FALSE, error |-> "Invalid path"], fsys, {}, fullPath,
           "rejected")

ServerError(fsys, touched, fullPath, checked, message) ==
    Answer(500, [success |-> FALSE, error |-> message], fsys, touched, fullPath,
           checked)

\* part_001 73-105: /api/image/metadata
HandleImageMetadata(root, fsys, filePath) ==
    LET fullPath == resolve(root, filePath) IN
    IF ~PathCheck(fullPath, root) THEN InvalidPath(fsys, fullPath)
    ELSE IF ~exists(fsys, fullPath) \/ fsys[fullPath].fmt \notin SharpFormats
    THEN ServerError(fsys, {fullPath}, fullPath, "passed", "metadata")
    ELSE Answer(200, [success |-> TRUE, width |-> fsys[fullPath].w,
                      height |-> fsys[fullPath].h, format |-> fsys[fullPath].fmt],
                fsys, {fullPath}, fullPath, "passed")

\* Math.round(a * (b / c)) for positive integers
RoundRatio(a, b, c) == (2 * a * b + c) \div (2 * c)

\* part_001 134-146: the dimensions a resize request resolves to; a
\* dimension that is not given (0) stays ungiven unless it is derived
FinalDimensions(width, height, metadata) ==
    IF width # 0 /\ height = 0
    THEN [w |-> width, h |-> RoundRatio(width, metadata.h, metadata.w)]
    ELSE IF height # 0 /\ width = 0
    THEN [w |-> RoundRatio(height, metadata.w, metadata.h), h |-> height]
    ELSE [w |-> width, h |-> height]

\* part_001 108-195: /api/resize/single
HandleResizeSingle(root, fsys, filePath, width, height, env) ==
    LET fullPath == resolve(root, filePath) IN
    IF ~PathCheck(fullPath, root) THEN InvalidPath(fsys, fullPath)
    ELSE IF ~exists(fsys, fullPath) \/ env.failAt = "stat"
    THEN ServerError(fsys, {fullPath}, fullPath, "passed", "stat")
    ELSE
    LET file == fsys[fullPath]
        originalSize == file.size
    IN
    IF file.fmt \notin SharpFormats \/ env.failAt = "metadata"
    THEN ServerError(fsys, {fullPath}, fullPath, "passed", "metadata")
    ELSE
    LET final == FinalDimensions(width, height, file) IN
    IF file.w = final.w /\ file.h = final.h
    THEN Answer(200,
                [success |-> TRUE, skipped |-> TRUE,
                 reason |-> "Image already has the requested dimensions",
                 originalSize |-> originalSize, newSize |-> originalSize,
                 saved |-> 0, originalWidth |-> file.w, originalHeight |-> file.h,
                 newWidth |-> final.w, newHeight |-> final.h],
                fsys, {fullPath}, fullPath, "passed")
    \* sharp's resize throws unless each given dimension is a positive integer
    ELSE IF final.w < 0 \/ final.h < 0 \/ (final.w = 0) # (final.h = 0)
    THEN ServerError(fsys, {fullPath}, fullPath, "passed", "resize")
    ELSE IF env.failAt \in {"toBuffer", "metadata2"}
    THEN ServerError(fsys, {fullPath}, fullPath, "passed", env.failAt)
    ELSE
    LET newW == IF final.w = 0 THEN file.w ELSE final.w
        newH == IF final.h = 0 THEN file.h ELSE final.h
        resizedBuffer == Content(env.newSize, file.fmt, newW, newH, "sharp", file.src)
    IN
    IF env.failAt = "write_open"
    THEN ServerError(fsys, {fullPath}, fullPath, "passed", "writeFile")
    ELSE IF env.failAt = "write_partial"
    THEN ServerError(Put(fsys, fullPath, Partial(env.written, fullPath)),
                     {fullPath}, fullPath, "passed", "writeFile")
    ELSE Answer(200,
                [success |-> TRUE, skipped |-> FALSE,
                 originalSize |-> originalSize, newSize |-> env.newSize,
                 saved |-> originalSize - env.newSize,
                 originalWidth |-> file.w, originalHeight |-> file.h,
                 newWidth |-> newW, newHeight |-> newH],
                Put(fsys, fullPath, resizedBuffer), {fullPath}, fullPath, "passed")

ResizeEnv ==
    [failAt : {"none", "stat", "metadata", "toBuffer", "metadata2", "write_open"},
     newSize : 1..MaxNewSize, written : {0}]
    \cup {e \in [failAt : {"write_partial"}, newSize : 1..MaxNewSize,
                  written : 0..(MaxNewSize - 1)] : e.written < e.newSize}

\* part_001 198-224: /api/compress/single
HandleCompressSingle(root, fsys, filePath, env) ==
    LET fullPath == resolve(root, filePath) IN
    IF ~PathCheck(fullPath, root) THEN InvalidPath(fsys, fullPath)
    ELSE LET out == compressImage(fsys, fullPath,
                        [quality |-> 80, maxWidth |-> 0, maxHeight |-> 0], env)
         IN  Answer(200, out.result, out.fs, {fullPath}, fullPath, "passed")

\* part_001 494-524: /api/audio/compress/single
HandleAudioCompressSingle(root, fsys, filePath, format, env) ==
    LET fullPath == resolve(root, filePath) IN
    IF ~PathCheck(fullPath, root) THEN InvalidPath(fsys, fullPath)
    ELSE LET out == compressAudio(fsys, fullPath,
                        [bitrate |-> "96k", sampleRate |-> null, channels |-> null,
                         format |-> format], env)
         IN  Answer(200, out.result, out.fs, AudioTouched(fullPath, format),
                    fullPath, "passed")

\* the order localeCompare gives the directory names of the model
SortedNames == <<".h", "etc", "r", "rx", "s">>

\* part_001 353-401: /api/list-directories; only a relative dirPath is
\* checked against the root
HandleListDirectories(root, fsys, dirPath) ==
    LET targetDir == IF dirPath = null THEN root
                     ELSE IF isAbsolute(dirPath) THEN resolve1(dirPath)
                     ELSE resolve(root, dirPath)
    IN
    IF dirPath # null /\ ~isAbsolute(dirPath) /\ ~PathCheck(targetDir, root)
    THEN InvalidPath(fsys, targetDir)
    ELSE
    LET checked == IF dirPath # null /\ ~isAbsolute(dirPath) THEN "passed" ELSE "none"
    IN
    IF ~(targetDir \in dirs \/ exists(fsys, targetDir))
    THEN Answer(400, [success |-> FALSE, error |-> "Directory does not exist"],
                fsys, {targetDir}, targetDir, checked)
    ELSE IF readdirFails(targetDir)
    THEN ServerError(fsys, {targetDir}, targetDir, checked, "readdir")
    ELSE Answer(200,
                [success |-> TRUE, currentPath |-> targetDir,
                 parentPath |-> dirname(targetDir),
                 directories |->
                    SelectSeq(SortedNames, LAMBDA n : join(targetDir, n) \in dirs
                                                      /\ join(targetDir, n) # targetDir)],
                fsys, {targetDir}, targetDir, checked)

\* the paths a single-shot request may name; null is the empty string
PathArgs ==
    {null, "a.png", "s/C.PNG", "g.gif", "b.wav", "m.mp3", "s/K.WAV",
     "missing.png", "s/../a.png", "../rx/x.png", "/etc", "../../etc/passwd"}

\* the width and height a resize request may carry; 0 is not given
Dimensions == {0, 2, 5000}

\* the request is answered: the answer, the files before and after
Answered(endpoint, arg, out, env) ==
    /\ api.pc = "idle"
    /\ bpc = "idle"
    /\ api' = [pc |-> "answered", endpoint |-> endpoint, arg |-> arg,
               fullPath |-> out.fullPath, checked |-> out.checked,
               status |-> out.status, body |-> out.body, before |-> fs,
               root |-> ROOT_DIR, env |-> env]
    /\ accessed' = out.accessed
    /\ fs' = out.fs
    /\ UNCHANGED <<ROOT_DIR, dirs, unreadable, fs0, batchVars>>

NoEnv == [failAt |-> "none", newSize |-> 0, written |-> 0]

ImageMetadata(filePath) ==
    Answered("/api/image/metadata", [filePath |-> filePath],
             HandleImageMetadata(ROOT_DIR, fs, filePath), NoEnv)

ResizeSingle(filePath, width, height, env) ==
    Answered("/api/resize/single",
             [filePath |-> filePath, width |-> width, height |-> height],
             HandleResizeSingle(ROOT_DIR, fs, filePath, width, height, env), env)

CompressSingle(filePath, env) ==
    Answered("/api/compress/single", [filePath |-> filePath],
             HandleCompressSingle(ROOT_DIR, fs, filePath, env), env)

AudioCompressSingle(filePath, format, env) ==
    Answered("/api/audio/compress/single", [filePath |-> filePath, format |-> format],
             HandleAudioCompressSingle(ROOT_DIR, fs, filePath, format, env), env)

ListDirectories(dirPath) ==
    Answered("/api/list-directories", [dirPath |-> dirPath],
             HandleListDirectories(ROOT_DIR, fs, dirPath), NoEnv)

\* part_001 227-254: /api/set-root; the handler runs whether or not a batch
\* is in flight
SetRoot(rootPath) ==
    /\ api.pc = "idle"
    /\ LET newRootPath == resolve1(rootPath)
       IN  IF ~(newRootPath \in dirs \/ exists(fs, newRootPath))
           THEN UNCHANGED ROOT_DIR
           ELSE ROOT_DIR' = newRootPath
    /\ UNCHANGED <<fs, dirs, unreadable, fs0, apiVars, batchVars>>

\* the directories a set-root request may name
RootArgs == {"/r", "/r/s", "/nope"}

NextApi ==
    \/ \E rootPath \in RootArgs : SetRoot(rootPath)
    \/ \E filePath \in PathArgs : ImageMetadata(filePath)
    \/ \E filePath \in PathArgs, width \in Dimensions, height \in Dimensions,
          env \in ResizeEnv : ResizeSingle(filePath, width, height, env)
    \/ \E filePath \in PathArgs, env \in ImageEnv : CompressSingle(filePath, env)
    \/ \E filePath \in PathArgs, format \in {null, "mp3", "ogg"}, env \in AudioEnv :
          AudioCompressSingle(filePath, format, env)
    \/ \E dirPath \in PathArgs : ListDirectories(dirPath)

SpecApi == Init /\ [][NextApi]_vars

(***************************************************************************)
(* A batch with /api/set-root requests arriving while it runs.             *)
(***************************************************************************)
\* the bodies of the batch requests: the root or its subdirectory
RaceBodies == [json : {TRUE}, targetPath : {null, "s"}, format : {null}]

\* the compression calls of these batches do not fail
RaceEnv == {env \in CompressEnv : env.failAt = "none"}

NextRace ==
    \/ \E k \in {"image", "audio"}, body \in RaceBodies : BatchRequest(k, body)
    \/ ReadDir
    \/ Step
    \/ \E env \in RaceEnv : CompressReturn(env)
    \/ Return
    \/ \E rootPath \in RootArgs : SetRoot(rootPath)

SpecRace == Init /\ [][NextRace]_vars

(***************************************************************************)
(* compressAudio on a directory that already holds files with the names    *)
(* of its temp file and of its final file.                                 *)
(***************************************************************************)
ClashTree(sz) ==
    ("/r/b.mp3" :> Audio("/r/b.mp3", sz + 1, "mp3"))
    @@ ("/r/m_temp.mp3" :> Audio("/r/m_temp.mp3", sz, "mp3"))
    @@ Tree(sz)

InitClash ==
    /\ ROOT_DIR = InitialRoot
    /\ fs \in {ClashTree(sz) : sz \in 1..MaxSize}
    /\ fs0 = fs
    /\ dirs = AllDirs
    /\ unreadable = {}
    /\ InitApi
    /\ InitBatch

NextClash ==
    \E filePath \in PathArgs, format \in {null, "mp3", "ogg"}, env \in AudioEnv :
        AudioCompressSingle(filePath, format, env)

SpecClash == InitClash /\ [][NextClash]_vars

(***************************************************************************)
(* The scanner (src/src/folder-dialog.ps1 125-207): fileTypeMap,           *)
(* getFileType and scanDirectory.                                          *)
(***************************************************************************)
\* folder-dialog.ps1 134-144: the table, in the order Object.entries gives
fileTypeMap ==
    <<[type |-> "image",
       exts |-> {".png", ".jpg", ".jpeg", ".gif", ".webp", ".bmp", ".tga", ".psd"}],
      [type |-> "script", exts |-> {".ts", ".js", ".json"}],
      [type |-> "audio", exts |-> {".mp3", ".wav", ".ogg", ".m4a", ".aac"}],
      [type |-> "model", exts |-> {".fbx", ".gltf", ".glb", ".obj", ".dae"}],
      [type |-> "prefab", exts |-> {".prefab"}],
      [type |-> "meta", exts |-> {".meta"}],
      [type |-> "material", exts |-> {".mtl", ".material"}],
      [type |-> "animation", exts |-> {".anim", ".animation"}],
      [type |-> "scene", exts |-> {".scene", ".fire"}]>>

\* filename.split('.').pop(): the text after the last dot, the whole name
\* when it has no dot
splitPop(filename) ==
    SubSeq(filename, LastIndexOf(filename, ".", Len(filename)) + 1, Len(filename))

\* folder-dialog.ps1 151-157
getFileType(filename) ==
    LET ext == "." \o toLowerCase(splitPop(filename))
        hits == SelectSeq(fileTypeMap, LAMBDA e : ext \in e.exts)
    IN  IF hits = << >> THEN "other" ELSE hits[1].type

\* mutant: a failing stat is not noticed, the entry counts as an empty file
statSync_NeverFails(fsys, statFails, p) ==
    IF p \in dirs THEN [ok |-> TRUE, isDirectory |-> TRUE, size |-> 0]
    ELSE [ok |-> TRUE, isDirectory |-> FALSE,
          size |-> IF exists(fsys, p) THEN fsys[p].size ELSE 0]

\* fs.statSync(fullPath) (folder-dialog.ps1 178): it throws for the paths in
\* statFails and for a path that does not exist
statSync(fsys, statFails, p) ==
    IF p \in statFails \/ ~(p \in dirs \/ exists(fsys, p))
    THEN [ok |-> FALSE, isDirectory |-> FALSE, size |-> 0]
    ELSE IF p \in dirs THEN [ok |-> TRUE, isDirectory |-> TRUE, size |-> 0]
    ELSE [ok |-> TRUE, isDirectory |-> FALSE, size |-> fsys[p].size]

\* mutant: only hidden directories are skipped
Skipped_HiddenOnly(item) == startsWith(item, ".")

\* folder-dialog.ps1 181: the directories the scan does not enter
Skipped(item) == startsWith(item, ".") \/ item = "node_modules"

\* folder-dialog.ps1 166, 182: a fresh node
NewNode(name) == [name |-> name, children |-> << >>, size |-> 0, fileCount |-> 0]

\* mutant: the child's size is added, its file count is not
AddChild_NoCount(tree, item, child) ==
    [tree EXCEPT !.children = (item :> child) @@ @,
                 !.size = @ + child.size]

\* folder-dialog.ps1 182-185: the scanned child is hung below the node and
\* its totals are added
AddChild(tree, item, child) ==
    [tree EXCEPT !.children = (item :> child) @@ @,
                 !.size = @ + child.size,
                 !.fileCount = @ + child.fileCount]

\* folder-dialog.ps1 190-191
AddFile(tree, size) ==
    [tree EXCEPT !.size = @ + size, !.fileCount = @ + 1]

\* mutant: the file is counted, its size is not added
AddTypeStat_NoSize(typeStats, type, size) ==
    LET old == IF type \in DOMAIN typeStats THEN typeStats[type]
               ELSE [count |-> 0, size |-> 0]
    IN  (type :> [count |-> old.count + 1, size |-> old.size]) @@ typeStats

\* folder-dialog.ps1 192-194
AddTypeStat(typeStats, type, size) ==
    LET old == IF type \in DOMAIN typeStats THEN typeStats[type]
               ELSE [count |-> 0, size |-> 0]
    IN  (type :> [count |-> old.count + 1, size |-> old.size + size]) @@ typeStats

RECURSIVE scan(_, _, _, _, _, _)
RECURSIVE scanItems(_, _, _, _, _, _, _, _)

\* folder-dialog.ps1 174-196: the loop over the items of currentDir, from
\* item i on; acc holds files and typeStats
scanItems(fsys, statFails, currentDir, relativePath, items, i, currentTree, acc) ==
    IF i > Len(items) THEN [tree |-> currentTree, acc |-> acc]
    ELSE
    LET item == items[i].name
        fullPath == join(currentDir, item)
        relPath == IF relativePath # "" THEN relativePath \o "/" \o item ELSE item
        stat == statSync(fsys, statFails, fullPath)
    IN  IF ~stat.ok
        THEN scanItems(fsys, statFails, currentDir, relativePath, items, i + 1,
                       currentTree, acc)
        ELSE IF stat.isDirectory
        THEN IF Skipped(item)
             THEN scanItems(fsys, statFails, currentDir, relativePath, items, i + 1,
                            currentTree, acc)
             ELSE LET sub == scan(fsys, statFails, fullPath, NewNode(item), relPath, acc)
                  IN  scanItems(fsys, statFails, currentDir, relativePath, items, i + 1,
                                AddChild(currentTree, item, sub.tree), sub.acc)
        ELSE LET size == stat.size
                 type == getFileType(item)
             IN  scanItems(fsys, statFails, currentDir, relativePath, items, i + 1,
                           AddFile(currentTree, size),
                           [files |-> Append(acc.files,
                                             [name |-> item, path |-> relPath,
                                              size |-> size, type |-> type]),
                            typeStats |-> AddTypeStat(acc.typeStats, type, size)])

\* folder-dialog.ps1 169-197: scan; a listing that fails ends the call
scan(fsys, statFails, currentDir, currentTree, relativePath, acc) ==
    IF readdirFails(currentDir) THEN [tree |-> currentTree, acc |-> acc]
    ELSE scanItems(fsys, statFails, currentDir, relativePath, readdir(fsys, currentDir),
                   1, currentTree, acc)

\* folder-dialog.ps1 164-201 (scannedAt, the time of the scan, is left out)
scanDirectory(fsys, statFails, dir) ==
    LET out == scan(fsys, statFails, dir, NewNode(basename(dir)), "",
                    [files |-> << >>, typeStats |-> << >>])
    IN  [files |-> out.acc.files, folderTree |-> out.tree,
         typeStats |-> out.acc.typeStats, rootPath |-> dir]

(***************************************************************************)
(* The estimates: estimateCompression (src/app.js 768-805) and             *)
(* estimateAudioCompression (src/src/audioCompressor.js 258-314).          *)
(***************************************************************************)
\* Math.floor(n * 0.3), Math.floor(n * 0.9): for a byte count n the double
\* product floors to the integer quotient
FloorRatio(n, num, den) == (n * num) \div den

EmptyEstimate ==
    [thrown |-> FALSE, error |-> "", total |-> 0, totalSize |-> 0, wavFiles |-> 0,
     wavSize |-> 0, files |-> << >>]

RECURSIVE estimateScanDir(_, _, _, _, _, _)
RECURSIVE estimateEntries(_, _, _, _, _, _, _, _)

\* app.js 777-795, audioCompressor.js 269-294: the loop over the entries
estimateEntries(k, fsys, statFails, rootDir, dir, entries, i, acc) ==
    IF acc.thrown \/ i > Len(entries) THEN acc
    ELSE
    LET entry == entries[i]
        fullPath == join(dir, entry.name)
        ext == toLowerCase(extname(entry.name))
    IN  IF entry.isDirectory
        THEN estimateEntries(k, fsys, statFails, rootDir, dir, entries, i + 1,
                             estimateScanDir(k, fsys, statFails, rootDir, fullPath, acc))
        ELSE IF ~Matches(k, entry.name)
        THEN estimateEntries(k, fsys, statFails, rootDir, dir, entries, i + 1, acc)
        ELSE IF fullPath \in statFails
        THEN [acc EXCEPT !.thrown = TRUE, !.error = "stat"]
        ELSE LET size == fsys[fullPath].size
                 wav == k = "audio" /\ ext = ".wav"
             IN  estimateEntries(k, fsys, statFails, rootDir, dir, entries, i + 1,
                     [acc EXCEPT
                         !.total = @ + 1,
                         !.totalSize = @ + size,
                         !.wavFiles = IF wav THEN @ + 1 ELSE @,
                         !.wavSize = IF wav THEN @ + size ELSE @,
                         !.files = Append(@,
                             IF k = "image"
                             THEN [path |-> relative(rootDir, fullPath), size |-> size]
                             ELSE [path |-> relative(rootDir, fullPath), size |-> size,
                                   format |-> replaceDot(ext)])])

\* app.js 774-797, audioCompressor.js 266-295: scanDir; a readdir that
\* rejects is not caught
estimateScanDir(k, fsys, statFails, rootDir, dir, acc) ==
    IF acc.thrown THEN acc
    ELSE IF readdirFails(dir) THEN [acc EXCEPT !.thrown = TRUE, !.error = "readdir"]
    ELSE estimateEntries(k, fsys, statFails, rootDir, dir, readdir(fsys, dir), 1, acc)

\* app.js 768-805: the estimate, or the error the call rejects with
estimateCompression(fsys, statFails, rootDir) ==
    LET out == estimateScanDir("image", fsys, statFails, rootDir, rootDir, EmptyEstimate)
    IN  IF out.thrown THEN [error |-> out.error]
        ELSE [totalImages |-> out.total,
              totalSize |-> out.totalSize,
              estimatedSaving |-> FloorRatio(out.totalSize, 3, 10),
              files |-> out.files]

\* audioCompressor.js 258-314
estimateAudioCompression(fsys, statFails, rootDir) ==
    LET out == estimateScanDir("audio", fsys, statFails, rootDir, rootDir, EmptyEstimate)
        wavSavings == FloorRatio(out.wavSize, 9, 10)
        otherSavings == FloorRatio(out.totalSize - out.wavSize, 3, 10)
    IN  IF out.thrown THEN [error |-> out.error]
        ELSE [totalAudio |-> out.total,
              totalSize |-> out.totalSize,
              wavFiles |-> out.wavFiles,
              wavSize |-> out.wavSize,
              estimatedSaving |-> wavSavings + otherSavings,
              files |-> out.files]

(***************************************************************************)
(* The handlers of /api/scan, /api/compress/estimate and                   *)
(* /api/audio/estimate (part_001 52-70 and 463-491).                       *)
(***************************************************************************)
\* part_001 52-56
HandleScan(root, fsys, statFails) ==
    Answer(200, scanDirectory(fsys, statFails, root), fsys, {root}, root, "none")

\* part_001 59-70
HandleCompressEstimate(root, fsys, statFails) ==
    LET estimate == estimateCompression(fsys, statFails, root)
    IN  IF "error" \in DOMAIN estimate
        THEN Answer(500, estimate, fsys, {root}, root, "none")
        ELSE Answer(200, estimate, fsys, {root}, root, "none")

\* part_001 463-491
HandleAudioEstimate(root, fsys, targetPath, statFails) ==
    LET audioDir == IF targetPath # null THEN resolve(root, targetPath) ELSE root
    IN  IF targetPath # null /\ ~(audioDir \in dirs \/ exists(fsys, audioDir))
        THEN Answer(400, [error |-> "Directory does not exist"], fsys, {audioDir},
                    audioDir, "none")
        ELSE LET estimate == estimateAudioCompression(fsys, statFails, audioDir)
             IN  IF "error" \in DOMAIN estimate
                 THEN Answer(500, estimate, fsys, {audioDir}, audioDir, "none")
                 ELSE Answer(200, estimate, fsys, {audioDir}, audioDir, "none")

\* the directories of the scanned tree: a subdirectory with a subdirectory,
\* a hidden directory and a node_modules
ScanDirs == {"/", "/r", "/r/s", "/r/s/t", "/r/.h", "/r/node_modules", "/etc"}

\* files of several types, one without a dot in its name, some below the
\* directories a scan skips
ScanTree(sz) ==
    ("/r/a.png" :> Image("/r/a.png", 10 * sz, "png"))
    @@ ("/r/b.wav" :> Audio("/r/b.wav", 10 * sz + 1, "wav"))
    @@ ("/r/o.ogg" :> Audio("/r/o.ogg", 20 * sz, "ogg"))
    @@ ("/r/meta" :> Orig("/r/meta", 3, "text", 0, 0))
    @@ ("/r/n.txt" :> Orig("/r/n.txt", sz, "text", 0, 0))
    @@ ("/r/s/C.PNG" :> Image("/r/s/C.PNG", 7 * sz, "png"))
    @@ ("/r/s/K.WAV" :> Audio("/r/s/K.WAV", 5, "wav"))
    @@ ("/r/s/t/d.json" :> Orig("/r/s/t/d.json", 2 * sz, "text", 0, 0))
    @@ ("/r/s/t/m.mp3" :> Audio("/r/s/t/m.mp3", 9, "mp3"))
    @@ ("/r/.h/e.webp" :> Image("/r/.h/e.webp", sz, "webp"))
    @@ ("/r/node_modules/i.js" :> Orig("/r/node_modules/i.js", 4, "text", 0, 0))
    @@ ("/etc/p.wav" :> Audio("/etc/p.wav", sz, "wav"))

ScanTrees == {ScanTree(sz) : sz \in 1..MaxSize}

\* the server starts with a root that need not exist (part_001 15); some
\* directories cannot be listed
InitScan ==
    /\ ROOT_DIR \in {InitialRoot, "/gone"}
    /\ fs \in ScanTrees
    /\ fs0 = fs
    /\ dirs = ScanDirs
    /\ unreadable \in {{}, {"/r/s"}, {"/r/s/t"}, {"/r"}}
    /\ InitApi
    /\ InitBatch

\* the paths whose stat may fail during one request
StatFailures == SUBSET {"/r/a.png", "/r/s", "/r/s/K.WAV", "/r/o.ogg"}

\* the names getFileType is applied to
FileNames ==
    {"texture.PNG", "data.meta", "readme", "a.tar.Json", ".png", "png", "meta",
     "x.", "clip.OGG", "n.txt"}

Scan(statFails) ==
    Answered("/api/scan", [root |-> ROOT_DIR],
             HandleScan(ROOT_DIR, fs, statFails), [statFails |-> statFails])

CompressEstimate(statFails) ==
    Answered("/api/compress/estimate", [root |-> ROOT_DIR],
             HandleCompressEstimate(ROOT_DIR, fs, statFails), [statFails |-> statFails])

AudioEstimate(targetPath, statFails) ==
    Answered("/api/audio/estimate", [targetPath |-> targetPath],
             HandleAudioEstimate(ROOT_DIR, fs, targetPath, statFails),
             [statFails |-> statFails])

\* getFileType applied to a name
Classify(filename) ==
    Answered("getFileType", [filename |-> filename],
             Answer(0, [type |-> getFileType(filename)], fs, {}, "", "none"),
             [statFails |-> {}])

NextScan ==
    \/ \E statFails \in StatFailures : Scan(statFails)
    \/ \E statFails \in StatFailures : CompressEstimate(statFails)
    \/ \E targetPath \in TargetPaths, statFails \in StatFailures :
          AudioEstimate(targetPath, statFails)
    \/ \E filename \in FileNames : Classify(filename)

SpecScan == InitScan /\ [][NextScan]_vars

(***************************************************************************)
(* Properties of the batch.                                                *)
(***************************************************************************)
Counted(res) == res.compressed + res.skipped + res.failed

ProgressEvents == SelectSeq(events, LAMBDA e : e.type = "progress")

Last(seq) == seq[Len(seq)]

Completed == bpc = "closed" /\ Last(events).type = "complete"

Threw == bpc = "closed" /\ Last(events).type = "error"

\* C1 as stated: in every reachable state of a batch run, also while a
\* file's compression call is in flight, and in the returned result,
\* total = compressed + skipped + failed.
C1_Original ==
    /\ results.total = Counted(results)
    /\ \A k \in 1..Len(events) :
          events[k].type = "complete" =>
              events[k].results.total = Counted(events[k].results)

\* C1 amended: total = compressed + skipped + failed in the returned result
\* and in every state in which no compression call is in flight; while a
\* call is in flight the file being compressed is already counted in total,
\* so total = compressed + skipped + failed + 1.
C1_Amended ==
    /\ bpc = "compressing" => results.total = Counted(results) + 1
    /\ bpc # "compressing" => results.total = Counted(results)
    /\ \A k \in 1..Len(events) :
          events[k].type = "complete" =>
              events[k].results.total = Counted(events[k].results)

\* a batch returned a result that counts a compressed, a skipped and a
\* failed file
C1_Witness ==
    /\ Completed
    /\ Last(events).results.compressed >= 1
    /\ Last(events).results.skipped >= 1
    /\ Last(events).results.failed >= 1

\* the files below dir that the batch of kind k looks for, as the model
\* starts
MatchingBelow(k, dir) ==
    {p \in DOMAIN fs0 : startsWith(p, dir \o "/") /\ Matches(k, basename(p))}

\* C2: a compression call that fails does not stop the batch: when the call
\* returns, whatever its outcome, the file is recorded in files (a failure
\* with success = FALSE and counted in failed), the same scanDir calls stay
\* active and the loop moves to the next entry; the batch throws only when
\* a readdir fails, never because of a per-file failure; and a batch that
\* returns has recorded every matching file below its directory.
C2_FailureNeverFatal ==
    /\ [][bpc = "compressing" =>
            /\ bpc' = "walking"
            /\ Len(stack') = Len(stack)
            /\ stack'[Len(stack)].i = stack[Len(stack)].i + 1
            /\ Len(results'.files) = Len(results.files) + 1
            /\ Last(results'.files).path = relative(compressDir, CurrentPath)
            /\ Last(results'.files).result = lastCall'.result
            /\ ~lastCall'.result.success =>
                  /\ ~Last(results'.files).result.success
                  /\ results'.failed = results.failed + 1]_vars
    /\ [](Threw => Last(events).error = "readdir")
    /\ [](Completed =>
            \A p \in MatchingBelow(kind, compressDir) :
                \E k \in 1..Len(results.files) :
                    results.files[k].path = relative(compressDir, p))

\* a batch returned although a file failed, and a file after the failed one
\* was compressed
C2_Witness ==
    /\ Completed
    /\ \E i, j \in 1..Len(results.files) :
          /\ i < j
          /\ ~results.files[i].result.success
          /\ results.files[j].result.success
          /\ ~Flag(results.files[j].result, "skipped")

\* C3: the k-th matching file is announced with current = k and its path
\* relative to the batch directory before its compression call starts, and
\* no progress event of a file follows the start of its compression: there
\* are as many progress events as files counted, the k-th carries
\* current = k and the path of the k-th entry of files, and while a call is
\* in flight the last event written is the progress event of that file, the
\* only announced file that has no entry in files yet.
C3_ProgressBeforeCompression ==
    /\ httpStatus = 200 => Len(ProgressEvents) = results.total
    /\ \A k \in 1..Len(ProgressEvents) : ProgressEvents[k].current = k
    /\ \A k \in 1..Len(results.files) :
          k <= Len(ProgressEvents) /\ results.files[k].path = ProgressEvents[k].file
    /\ bpc = "compressing" =>
          /\ Len(results.files) = Len(ProgressEvents) - 1
          /\ Last(events).type = "progress"
          /\ Last(events).current = Len(results.files) + 1
          /\ Last(events).file = relative(compressDir, CurrentPath)
    /\ bpc \in {"walking", "closed"} => Len(results.files) = Len(ProgressEvents)

\* the second matching file of a batch, in a subdirectory, is in flight
C3_Witness ==
    /\ bpc = "compressing"
    /\ results.total = 2
    /\ Len(stack) = 2
    /\ Last(events).current = 2

\* C4: the response of a started batch is progress events followed by
\* exactly one terminal event, complete or error; the terminal event is the
\* last event, the stream is ended in the step that writes it, nothing is
\* written afterwards, and this holds when the batch returns and when it
\* throws.
C4_OneTerminalEvent ==
    /\ [](httpStatus = 200 =>
            /\ \A k \in 1..(Len(events) - 1) : events[k].type = "progress"
            /\ ended <=> (events # << >> /\ Last(events).type \in {"complete", "error"})
            /\ ended <=> bpc = "closed"
            /\ ~ended => \A k \in 1..Len(events) : events[k].type = "progress")
    /\ [][ended => UNCHANGED <<events, ended>>]_vars
    /\ [][(bpc \in {"walking", "compressing"} /\ bpc' = "closed") =>
            (ended' /\ Len(events') = Len(events) + 1)]_vars

\* a batch threw after it had announced a file: the stream holds progress
\* events, then the error event, and is ended
C4_Witness ==
    /\ httpStatus = 200
    /\ ended
    /\ Len(events) >= 2
    /\ Last(events).type = "error"

(***************************************************************************)
(* Properties of the path check.                                           *)
(***************************************************************************)
CheckingEndpoints ==
    {"/api/image/metadata", "/api/resize/single", "/api/compress/single",
     "/api/audio/compress/single"}

\* C5 as stated: an operation that checks its path accepts the request only
\* if the resolved path is the root or a descendant of the root, compared
\* by path components; every resolved path outside the root subtree is
\* rejected with 'Invalid path'.
C5_Original ==
    (api.pc = "answered" /\ api.endpoint \in CheckingEndpoints
     /\ ~WithinTree(api.root, api.fullPath))
    => (api.checked = "rejected" /\ api.status = 403
        /\ api.body.error = "Invalid path")

\* C6 as stated, for the audio batch: a request whose path resolves outside
\* the current root is rejected before any file I/O on that path, so every
\* path a request did file I/O on lies in the root subtree.
C6_Original ==
    kind = "audio" => \A p \in accessed : WithinTree(ROOT_DIR, p)

(***************************************************************************)
(* Properties of the compression calls.                                    *)
(***************************************************************************)
Passed(endpoint) ==
    api.pc = "answered" /\ api.endpoint = endpoint /\ api.checked = "passed"

OthersUnchanged(paths) ==
    \A q \in (DOMAIN fs \cup DOMAIN api.before) \ paths :
        q \in DOMAIN fs /\ q \in DOMAIN api.before /\ fs[q] = api.before[q]

\* C7: compressImage overwrites the file exactly when the image is png,
\* jpeg or webp and the re-encoded buffer is strictly smaller than the file;
\* every other outcome that is not a failure is skipped = TRUE, saved = 0,
\* newSize = originalSize with the bytes unchanged; and a file is never
\* written unless the format is one of the three and the buffer is smaller.
C7_WriteIffSmaller ==
    Passed("/api/compress/single") =>
        LET p == api.fullPath
            r == api.body
            was == api.before[p]
            smaller == was.fmt \in {"png", "jpeg", "webp"} /\ api.env.newSize < was.size
        IN  /\ OthersUnchanged({p})
            /\ p \in DOMAIN api.before <=> p \in DOMAIN fs
            /\ (p \in DOMAIN fs /\ fs[p] # was) => smaller
            /\ r.success =>
                  /\ fs[p] # was <=> smaller
                  /\ smaller =>
                        /\ fs[p].size = api.env.newSize
                        /\ ~r.skipped
                        /\ r.originalSize = was.size
                        /\ r.newSize = api.env.newSize
                        /\ r.saved = was.size - api.env.newSize
                  /\ ~smaller =>
                        /\ r.skipped
                        /\ r.saved = 0
                        /\ r.newSize = was.size
                        /\ r.originalSize = was.size
                        /\ fs = api.before

\* compressImage met a buffer of the same length as the file and skipped it
C7_Witness ==
    /\ Passed("/api/compress/single")
    /\ api.body.success
    /\ api.body.skipped
    /\ api.before[api.fullPath].fmt = "png"
    /\ api.env.newSize = api.before[api.fullPath].size

\* the extension without its dot
Bare(ext) == SubSeq(ext, 2, Len(ext))

C9_Original ==
    Passed("/api/audio/compress/single") =>
        LET ext == toLowerCase(extname(api.fullPath))
        IN  ~exists(fs, TempOutput(api.fullPath, ext,
                                   OutputFormat(api.arg.format, ext)))

\* C10 as stated: when compressImage returns success = FALSE, or the resize
\* answers success = FALSE, the file at the target path holds the bytes it
\* held before the call.
C10_Original ==
    (/\ api.pc = "answered"
     /\ api.endpoint \in {"/api/compress/single", "/api/resize/single"}
     /\ api.checked = "passed"
     /\ ~api.body.success)
    => fs = api.before

(***************************************************************************)
(* Properties of the scanner.                                              *)
(***************************************************************************)
RECURSIVE SumSet(_, _)
\* the sum of F[x] over the x of S
SumSet(S, F) ==
    IF S = {} THEN 0
    ELSE LET x == CHOOSE y \in S : TRUE
         IN  F[x] + SumSet(S \ {x}, F)

\* the sum of the field size over the entries of a sequence
SumSizes(seq) == SumSet(DOMAIN seq, [i \in DOMAIN seq |-> seq[i].size])

ScanAnswered == api.pc = "answered" /\ api.endpoint = "/api/scan"

\* a directory name the scan must not enter
SkipName(name) == Ch(name, 1) = "." \/ name = "node_modules"

RelJoin(rel, name) == IF rel = "" THEN name ELSE rel \o "/" \o name

\* the entries of files that lie directly in the directory rel
DirectFiles(files, rel) ==
    {i \in DOMAIN files : files[i].path = RelJoin(rel, files[i].name)}

RECURSIVE NodeTotals(_, _, _)
\* the node at rel and every node below it have the totals of their direct
\* files plus those of their children
NodeTotals(node, rel, files) ==
    LET direct == DirectFiles(files, rel)
        kids == DOMAIN node.children
    IN  /\ node.size = SumSet(direct, [i \in direct |-> files[i].size])
                       + SumSet(kids, [c \in kids |-> node.children[c].size])
        /\ node.fileCount = Cardinality(direct)
                            + SumSet(kids, [c \in kids |-> node.children[c].fileCount])
        /\ \A c \in kids : NodeTotals(node.children[c], RelJoin(rel, c), files)

\* C11: in every result of scanDirectory each FolderNode's size and
\* fileCount are the sums over its direct files plus the totals of its child
\* nodes; the root's size is the sum of the sizes of files and its fileCount
\* is the length of files
C11_FolderTotals ==
    ScanAnswered =>
        /\ NodeTotals(api.body.folderTree, "", api.body.files)
        /\ api.body.folderTree.size = SumSizes(api.body.files)
        /\ api.body.folderTree.fileCount = Len(api.body.files)

\* a scan with files in the root, in a subdirectory and in a subdirectory of
\* that one
C11_Witness ==
    /\ ScanAnswered
    /\ "s" \in DOMAIN api.body.folderTree.children
    /\ "t" \in DOMAIN api.body.folderTree.children["s"].children
    /\ api.body.folderTree.children["s"].children["t"].fileCount = 2
    /\ api.body.folderTree.children["s"].fileCount = 4
    /\ api.body.folderTree.fileCount = 9

\* the entries of files whose type is t
OfType(files, t) == {i \in DOMAIN files : files[i].type = t}

\* C12: in every result of scanDirectory the sizes of typeStats add up to
\* the sizes of files, the counts add up to the length of files, and each
\* typeStats[t] counts exactly the files of type t
C12_TypeStats ==
    ScanAnswered =>
        LET files == api.body.files
            typeStats == api.body.typeStats
            types == DOMAIN typeStats
        IN  /\ SumSet(types, [t \in types |-> typeStats[t].size]) = SumSizes(files)
            /\ SumSet(types, [t \in types |-> typeStats[t].count]) = Len(files)
            /\ types = {files[i].type : i \in DOMAIN files}
            /\ \A t \in types :
                  /\ typeStats[t].count = Cardinality(OfType(files, t))
                  /\ typeStats[t].size =
                        SumSet(OfType(files, t), [i \in OfType(files, t) |-> files[i].size])

\* a scan that found several files of one type and files of other types
C12_Witness ==
    /\ ScanAnswered
    /\ {"image", "audio", "script", "other"} \subseteq DOMAIN api.body.typeStats
    /\ api.body.typeStats["audio"].count = 4
    /\ api.body.typeStats["image"].count = 2

\* the directories from root down to the one that holds p
Ancestors(root, p) == {d \in dirs : WithinTree(root, d) /\ WithinTree(d, p)}

\* p lies below a directory, below root, that the scan must not enter
UnderSkipped(root, p) ==
    \E d \in Ancestors(root, p) : d # root /\ SkipName(basename(d))

RECURSIVE NoSkippedNode(_)
NoSkippedNode(node) ==
    \A c \in DOMAIN node.children :
        ~SkipName(c) /\ NoSkippedNode(node.children[c])

\* the entries of files that stand for the file p
EntriesOf(files, root, p) == {i \in DOMAIN files : join(root, files[i].path) = p}

\* no file below a skipped directory is in files, and these directories have
\* no node
SkippedLeftOut ==
    /\ \A i \in DOMAIN api.body.files :
          ~UnderSkipped(api.root, join(api.root, api.body.files[i].path))
    /\ NoSkippedNode(api.body.folderTree)
    /\ api.body.folderTree.size = SumSizes(api.body.files)
    /\ LET types == DOMAIN api.body.typeStats
       IN  SumSet(types, [t \in types |-> api.body.typeStats[t].count])
              = Len(api.body.files)

\* the statement as given: every file outside the skipped directories whose
\* stat succeeds is one entry of files
C13_Original ==
    ScanAnswered =>
        /\ SkippedLeftOut
        /\ \A p \in DOMAIN fs :
              (WithinTree(api.root, p) /\ ~UnderSkipped(api.root, p)
                  /\ p \notin api.env.statFails)
              => Cardinality(EntriesOf(api.body.files, api.root, p)) = 1

\* the scan comes to the file p: every directory from the root down to it is
\* listed, and the ones below the root are stat'ed, successfully
ScanReaches(root, p, statFails) ==
    \A d \in Ancestors(root, p) :
        ~readdirFails(d) /\ (d # root => d \notin statFails)

\* C13: scanDirectory never traverses a directory whose name starts with '.'
\* or is 'node_modules': no file below one is in files, typeStats or a
\* FolderNode total and the directory has no node; every file outside these
\* directories whose stat succeeds, in a directory the scan comes to (the
\* directories above it are listed and stat'ed successfully), is exactly one
\* entry of files
C13_Amended ==
    ScanAnswered =>
        /\ SkippedLeftOut
        /\ \A p \in DOMAIN fs :
              (WithinTree(api.root, p) /\ ~UnderSkipped(api.root, p)
                  /\ p \notin api.env.statFails
                  /\ ScanReaches(api.root, p, api.env.statFails))
              => Cardinality(EntriesOf(api.body.files, api.root, p)) = 1

\* a scan of a root that holds a hidden directory and a node_modules with
\* files, and found the files of the other directories
C13_Witness ==
    /\ ScanAnswered
    /\ exists(fs, "/r/.h/e.webp") /\ exists(fs, "/r/node_modules/i.js")
    /\ api.root = "/r"
    /\ Len(api.body.files) = 9

(***************************************************************************)
(* The walk of the batch and its failures.                                 *)
(***************************************************************************)
\* C14: the batch walkers apply the skip rules of scanDirectory: no file
\* below a directory whose name starts with '.' or is 'node_modules' is
\* counted in total, announced in a progress event, compressed or modified
C14_Original ==
    bpc \in {"walking", "compressing", "closed"} =>
        /\ \A i \in DOMAIN events :
              events[i].type = "progress"
              => ~UnderSkipped(compressDir, join(compressDir, events[i].file))
        /\ \A i \in DOMAIN results.files :
              ~UnderSkipped(compressDir, join(compressDir, results.files[i].path))
        /\ \A p \in DOMAIN fs0 :
              (WithinTree(compressDir, p) /\ UnderSkipped(compressDir, p))
              => (exists(fs, p) /\ fs[p] = fs0[p])

\* C15: during a batch a subdirectory that cannot be read is skipped
\* locally: the walk continues, the batch returns its result and the stream
\* ends with 'complete'; the I/O error never fails the whole operation
C15_Original ==
    (/\ bpc = "closed"
     /\ compressDir \in dirs
     /\ compressDir \notin unreadable)
    => Last(events).type = "complete"

(***************************************************************************)
(* Failures during a scan.                                                 *)
(***************************************************************************)
RECURSIVE UnlistedEmpty(_, _, _)
\* every node of a directory whose listing fails has no file and no child
UnlistedEmpty(node, dir, root) ==
    /\ readdirFails(dir)
       => (node.size = 0 /\ node.fileCount = 0 /\ DOMAIN node.children = {})
    /\ \A c \in DOMAIN node.children :
          UnlistedEmpty(node.children[c], join(dir, c), root)

RECURSIVE NoFailedNode(_, _, _)
\* no node stands for a directory whose stat failed
NoFailedNode(node, dir, statFails) ==
    \A c \in DOMAIN node.children :
        /\ join(dir, c) \notin statFails
        /\ NoFailedNode(node.children[c], join(dir, c), statFails)

\* C16: in scanDirectory a subdirectory whose listing fails contributes size
\* 0 and fileCount 0 and the scan goes on with its siblings; an entry whose
\* stat fails is left out of files, typeStats and every FolderNode total;
\* scanDirectory does not throw in either case
C16_ScanRecoversLocally ==
    ScanAnswered =>
        LET files == api.body.files
            types == DOMAIN api.body.typeStats
        IN  /\ api.status = 200
            /\ {"files", "folderTree", "typeStats"} \subseteq DOMAIN api.body
            /\ UnlistedEmpty(api.body.folderTree, api.root, api.root)
            /\ \A i \in DOMAIN files : join(api.root, files[i].path) \notin api.env.statFails
            /\ NoFailedNode(api.body.folderTree, api.root, api.env.statFails)
            /\ api.body.folderTree.size = SumSizes(files)
            /\ api.body.folderTree.fileCount = Len(files)
            /\ SumSet(types, [t \in types |-> api.body.typeStats[t].size]) = SumSizes(files)
            /\ \A p \in DOMAIN fs :
                  (WithinTree(api.root, p) /\ ~UnderSkipped(api.root, p)
                      /\ p \notin api.env.statFails
                      /\ ScanReaches(api.root, p, api.env.statFails))
                  => EntriesOf(files, api.root, p) # {}

\* a scan with a subdirectory that cannot be listed and a file whose stat
\* fails, which found the files next to them
C16_Witness ==
    /\ ScanAnswered
    /\ api.root = "/r"
    /\ "/r/s/t" \in unreadable
    /\ "/r/a.png" \in api.env.statFails
    /\ "t" \in DOMAIN api.body.folderTree.children["s"].children
    /\ api.body.folderTree.children["s"].fileCount = 2
    /\ Len(api.body.files) = 6

(***************************************************************************)
(* Validation of a resize request.                                         *)
(***************************************************************************)
\* a dimension that is given and outside [1, 4096]
OutOfRange(d) == d # 0 /\ (d < 1 \/ d > 4096)

\* C17: the resize operation rejects, before any read, decode or write of
\* the file and with a reason, every request in which neither width nor
\* height is given or in which a given dimension lies outside [1, 4096]; a
\* request whose derived dimension lies outside [1, 4096] is rejected and
\* writes nothing
C17_Original ==
    (/\ api.pc = "answered"
     /\ api.endpoint = "/api/resize/single"
     /\ api.checked = "passed")
    => /\ ((api.arg.width = 0 /\ api.arg.height = 0)
             \/ OutOfRange(api.arg.width) \/ OutOfRange(api.arg.height))
          => (/\ ~api.body.success
              /\ api.status \in 400..499
              /\ accessed = {}
              /\ fs = api.before)
       /\ (/\ exists(api.before, api.fullPath)
           /\ api.before[api.fullPath].fmt \in SharpFormats
           /\ api.env.failAt \notin {"stat", "metadata"}
           /\ LET final == FinalDimensions(api.arg.width, api.arg.height,
                                           api.before[api.fullPath])
              IN  OutOfRange(final.w) \/ OutOfRange(final.h))
          => (~api.body.success /\ fs = api.before)

(***************************************************************************)
(* Classification.                                                         *)
(***************************************************************************)
\* the category whose extension set holds ext, 'other' when none does
CategoryOf(ext) ==
    IF \E k \in DOMAIN fileTypeMap : ext \in fileTypeMap[k].exts
    THEN fileTypeMap[CHOOSE k \in DOMAIN fileTypeMap : ext \in fileTypeMap[k].exts].type
    ELSE "other"

HasDot(filename) == \E i \in 1..Len(filename) : Ch(filename, i) = "."

\* C18: getFileType(filename) is the category of fileTypeMap whose set holds
\* the lower-cased extension of filename (the text after the last dot), and
\* 'other' when the filename has no dot or its extension is in no set; the
\* extension sets are pairwise disjoint
C18_Original ==
    /\ \A j, k \in DOMAIN fileTypeMap :
          j # k => fileTypeMap[j].exts \cap fileTypeMap[k].exts = {}
    /\ (api.pc = "answered" /\ api.endpoint = "getFileType")
       => api.body.type =
             IF HasDot(api.arg.filename)
             THEN CategoryOf("." \o toLowerCase(splitPop(api.arg.filename)))
             ELSE "other"

(***************************************************************************)
(* The estimates.                                                          *)
(***************************************************************************)
\* the bytes of the files of an audio estimate whose format is in fmts
BytesOf(files, fmts) ==
    LET S == {i \in DOMAIN files : files[i].format \in fmts}
    IN  SumSet(S, [i \in S |-> files[i].size])

\* the formats the audio estimate may report
EstimateFormats == {replaceDot(x) : x \in audioExtensions}

\* C19: estimateCompression returns floor(30% of the image bytes);
\* estimateAudioCompression returns the sum of the floor-rounded savings of
\* 90% of the WAV bytes, 25% of the OGG bytes and 30% of the other audio
\* bytes; estimatedSaving never exceeds totalSize
C19_Original ==
    /\ (api.pc = "answered" /\ api.endpoint = "/api/compress/estimate"
           /\ api.status = 200)
       => /\ api.body.totalSize = SumSizes(api.body.files)
          /\ api.body.estimatedSaving = (3 * api.body.totalSize) \div 10
          /\ api.body.estimatedSaving <= api.body.totalSize
    /\ (api.pc = "answered" /\ api.endpoint = "/api/audio/estimate"
           /\ api.status = 200)
       => /\ api.body.totalSize = SumSizes(api.body.files)
          /\ api.body.estimatedSaving =
                (9 * BytesOf(api.body.files, {"wav"})) \div 10
                + (25 * BytesOf(api.body.files, {"ogg"})) \div 100
                + (3 * BytesOf(api.body.files, EstimateFormats \ {"wav", "ogg"})) \div 10
          /\ api.body.estimatedSaving <= api.body.totalSize

(***************************************************************************)
(* A root that does not exist.                                             *)
(***************************************************************************)
\* C20: when the root directory does not exist, scan and estimate surface an
\* error and do not start: /api/scan returns no ScanResult and the estimates
\* return no estimate value
C20_Original ==
    (/\ api.pc = "answered"
     /\ api.endpoint \in {"/api/scan", "/api/compress/estimate", "/api/audio/estimate"}
     /\ api.fullPath \notin dirs)
    => /\ api.status # 200
       /\ "error" \in DOMAIN api.body
       /\ "files" \notin DOMAIN api.body

(***************************************************************************)
(* The result of a batch.                                                  *)
(***************************************************************************)
\* the entries of files with the given success and skipped
Entries(files, ok, skip) ==
    {i \in DOMAIN files :
        files[i].result.success = ok /\ (ok => Flag(files[i].result, "skipped") = skip)}

\* C21: in the complete payload of a batch, compressed, skipped and failed
\* are the numbers of entries of files with (success and not skipped),
\* (success and skipped) and (not success); failed >= 1 whenever the
\* compression of a file failed
C21_CountsMatchFiles ==
    \A k \in DOMAIN events :
        events[k].type = "complete" =>
            LET res == events[k].results
            IN  /\ res.compressed = Cardinality(Entries(res.files, TRUE, FALSE))
                /\ res.skipped = Cardinality(Entries(res.files, TRUE, TRUE))
                /\ res.failed = Cardinality(Entries(res.files, FALSE, FALSE))
                /\ (\E i \in DOMAIN res.files : ~res.files[i].result.success)
                      => res.failed >= 1

\* a batch returned after two files failed and one was compressed
C21_Witness ==
    /\ Completed
    /\ Last(events).results.skipped = 0
    /\ Last(events).results.failed = 2
    /\ Last(events).results.compressed = 1

\* the extensions of the image batch, as the statement lists them
ImageNames == {".png", ".jpg", ".jpeg", ".webp"}

IsImageName(p) == toLowerCase(extname(basename(p))) \in ImageNames

\* C22: an image batch never modifies, creates or deletes a file whose
\* extension is not .png, .jpg, .jpeg or .webp: every such file has the path
\* and bytes it had before, and is not counted in total
C22_ImageBatchFrame ==
    kind = "image" =>
        /\ \A p \in (DOMAIN fs0) \cup (DOMAIN fs) :
              ~IsImageName(p) => (exists(fs0, p) /\ exists(fs, p) /\ fs[p] = fs0[p])
        /\ \A i \in DOMAIN events :
              events[i].type = "progress" => IsImageName(events[i].file)
        /\ \A i \in DOMAIN results.files : IsImageName(results.files[i].path)
        /\ results.total <= Cardinality({p \in DOMAIN fs0 : IsImageName(p)})

\* an image batch over a directory that holds audio files returned after it
\* had rewritten an image
C22_Witness ==
    /\ kind = "image"
    /\ Completed
    /\ compressDir = "/r"
    /\ exists(fs, "/r/b.wav")
    /\ fs["/r/a.png"] # fs0["/r/a.png"]

(***************************************************************************)
(* The walk processes every matching file once.                            *)
(***************************************************************************)
\* every matching file under the directory of the batch, at any depth, has
\* exactly one entry in the result, and files.length = total = their number
EveryFileOnce ==
    LET files == Last(events).results.files
        matching == MatchingBelow(kind, compressDir)
    IN  /\ Len(files) = Last(events).results.total
        /\ Len(files) = Cardinality(matching)
        /\ \A p \in matching :
              Cardinality({i \in DOMAIN files :
                              files[i].path = relative(compressDir, p)}) = 1

RECURSIVE WalkCost(_, _)
RECURSIVE RestCost(_, _, _, _)

\* the steps the walk still takes for the entries of dir from the i-th on:
\* one to look at an entry, one more for the compression call of a
\* matching file, and the walk of a subdirectory
RestCost(fsys, dir, entries, i) ==
    IF i > Len(entries) THEN 0
    ELSE (IF entries[i].isDirectory THEN 1 + WalkCost(fsys, join(dir, entries[i].name))
          ELSE IF Matches(kind, entries[i].name) THEN 2
          ELSE 1)
         + RestCost(fsys, dir, entries, i + 1)

\* the steps of a scanDir call on dir: the listing, the entries, the return
WalkCost(fsys, dir) ==
    IF readdirFails(dir) THEN 1
    ELSE 1 + RestCost(fsys, dir, readdir(fsys, dir), 1) + 1

\* the steps left for the k-th active scanDir call of the stack st
FrameCost(st, fsys, k) ==
    LET f == st[k]
    IN  IF ~f.read THEN WalkCost(fsys, f.dir)
        ELSE RestCost(fsys, f.dir, f.entries, IF k = Len(st) THEN f.i ELSE f.i + 1) + 1

RECURSIVE StackCost(_, _, _)
StackCost(st, fsys, k) ==
    IF k = 0 THEN 0 ELSE FrameCost(st, fsys, k) + StackCost(st, fsys, k - 1)

\* a bound on the steps a batch at position b with the stack st still
\* takes: a natural number, at most the size of the tree under the batch
\* directory
StepsLeftOf(b, st, fsys) ==
    IF b \notin {"walking", "compressing"} THEN 0
    ELSE StackCost(st, fsys, Len(st)) - (IF b = "compressing" THEN 1 ELSE 0)

StepsLeft == StepsLeftOf(bpc, stack, fs)

\* C23: for every finite directory tree a batch terminates (the walk can
\* always take a step, and every step decreases StepsLeft, a natural number
\* bounded by the size of the tree), and it completes only after every file
\* with a matching extension under the directory was processed exactly
\* once, also when an audio conversion renames files during the walk
C23_TerminatesEveryFileOnce ==
    /\ [](bpc \in {"walking", "compressing"} =>
            /\ StepsLeft \in Nat /\ StepsLeft >= 1
            /\ stack # << >>
            /\ bpc = "compressing" => (Top.read /\ Top.i <= Len(Top.entries)))
    /\ [][(bpc \in {"walking", "compressing"})
            => (StepsLeft > StepsLeftOf(bpc', stack', fs'))]_vars
    /\ [](Completed => EveryFileOnce)

\* an audio batch returned after it had converted a file of the root and
\* processed a file of a subdirectory
C23_Witness ==
    /\ Completed
    /\ kind = "audio"
    /\ compressDir = "/r"
    /\ ~exists(fs, "/r/b.wav")
    /\ \E i \in DOMAIN results.files : results.files[i].path = "s/K.WAV"
    /\ Len(results.files) = 3

\* C24: the progress events of a batch carry current = 1, 2, ..., total in
\* increasing order with no gap or repeat, and the k-th entry of the
\* result's files has the path of the event with current = k
C24_TraversalOrder ==
    /\ [][Len(ProgressEvents') > Len(ProgressEvents) =>
            /\ Len(ProgressEvents') = Len(ProgressEvents) + 1
            /\ Last(ProgressEvents').current = Len(ProgressEvents) + 1
            /\ SubSeq(ProgressEvents', 1, Len(ProgressEvents)) = ProgressEvents]_vars
    /\ [](Completed =>
            LET res == Last(events).results
            IN  /\ Len(ProgressEvents) = res.total
                /\ Len(res.files) = res.total
                /\ \A k \in 1..res.total :
                      /\ ProgressEvents[k].current = k
                      /\ res.files[k].path = ProgressEvents[k].file)

\* a batch returned with three files, from the root and from a subdirectory
C24_Witness ==
    /\ Completed
    /\ Last(events).results.total = 3
    /\ \E k \in 1..3 : startsWith(Last(events).results.files[k].path, "s/")
    /\ \E k \in 1..3 : ~startsWith(Last(events).results.files[k].path, "s/")

\* the compression calls in flight: announced files without an outcome
InFlight == results.total - Len(results.files)

\* C25: within one batch at most one compression call is in flight: the
\* progress event of the next file is emitted only after the outcome of the
\* file before it was added to the sums, to exactly one counter and to files
C25_OneCallInFlight ==
    /\ [](InFlight \in {0, 1} /\ (InFlight = 1 <=> bpc = "compressing"))
    /\ [][Len(ProgressEvents') > Len(ProgressEvents) =>
            /\ InFlight = 0
            /\ Counted(results) = Len(results.files)
            /\ Len(ProgressEvents) = Len(results.files)]_vars
    /\ [][Len(results'.files) > Len(results.files) =>
            /\ InFlight = 1
            /\ Counted(results') = Counted(results) + 1
            /\ results'.originalSize = results.originalSize + lastCall'.result.originalSize
            /\ results'.newSize = results.newSize + lastCall'.result.newSize
            /\ results'.savedSize = results.savedSize + lastCall'.result.saved
            /\ UNCHANGED events]_vars

\* the second file is announced after the first one failed
C25_Witness ==
    /\ bpc = "compressing"
    /\ results.total = 2
    /\ Len(results.files) = 1
    /\ ~results.files[1].result.success

\* C26: in every state of a batch and in its result savedSize =
\* originalSize - newSize, because every outcome of a compression call has
\* saved = originalSize - newSize; a failed file adds 0 to the three sums
C26_SavedIsDifference ==
    /\ results.savedSize = results.originalSize - results.newSize
    /\ \A i \in DOMAIN results.files :
          LET r == results.files[i].result
          IN  /\ r.saved = r.originalSize - r.newSize
              /\ ~r.success => (r.originalSize = 0 /\ r.newSize = 0 /\ r.saved = 0)
    /\ \A k \in DOMAIN events :
          events[k].type = "complete" =>
              events[k].results.savedSize =
                  events[k].results.originalSize - events[k].results.newSize

\* a batch returned with bytes saved although a file failed
C26_Witness ==
    /\ Completed
    /\ Last(events).results.savedSize > 0
    /\ Last(events).results.failed >= 1
    /\ Last(events).results.skipped >= 1

(***************************************************************************)
(* The original of a failed audio compression, and the other files.        *)
(***************************************************************************)
AudioSingleAnswered ==
    /\ api.pc = "answered"
    /\ api.endpoint = "/api/audio/compress/single"
    /\ api.checked = "passed"

\* C27: whenever compressAudio returns success = false the original file
\* still exists at its path with unchanged content: the original is never
\* unlinked without the transcoded file being moved into its place
C27_Original ==
    (AudioSingleAnswered /\ ~api.body.success /\ exists(api.before, api.fullPath))
    => (exists(fs, api.fullPath) /\ fs[api.fullPath] = api.before[api.fullPath])

\* C28: compressAudio changes no file other than its input file and the
\* temp file it creates: a file that existed before the call under another
\* path, such as dir/a.mp3 or dir/a_temp.mp3, keeps its bytes
C28_Original ==
    AudioSingleAnswered =>
        \A p \in DOMAIN api.before :
            p # api.fullPath => (exists(fs, p) /\ fs[p] = api.before[p])

(***************************************************************************)
(* The root while a batch runs.                                            *)
(***************************************************************************)
\* C29: a batch works throughout on the directory resolved from the root
\* when its request was handled: a /api/set-root request that succeeds
\* while the batch runs changes neither the files the batch visits nor the
\* base of the relative paths it reports; a /api/set-root request that
\* names a directory that does not exist leaves the root unchanged
C29_RootSnapshot ==
    /\ [][(bpc = "idle" /\ bpc' = "walking") =>
            compressDir' = (IF options'.targetPath # null
                            THEN resolve(ROOT_DIR, options'.targetPath)
                            ELSE ROOT_DIR)]_vars
    /\ [][(bpc \in {"walking", "compressing"}) => (compressDir' = compressDir)]_vars
    /\ [](\A i \in DOMAIN events :
            events[i].type = "progress"
            => join(compressDir, events[i].file) \in MatchingBelow(kind, compressDir))
    /\ [](\A i \in DOMAIN results.files :
            join(compressDir, results.files[i].path) \in MatchingBelow(kind, compressDir))
    /\ [](Completed => EveryFileOnce)
    /\ [][(ROOT_DIR' # ROOT_DIR) => (ROOT_DIR' \in dirs)]_vars
    /\ [](ROOT_DIR \in dirs)

\* a batch on the first root returned all its files after the root had been
\* set to another directory
C29_Witness ==
    /\ Completed
    /\ compressDir = "/r"
    /\ ROOT_DIR = "/r/s"
    /\ Last(events).results.total = 3
    /\ \E i \in DOMAIN events : events[i].type = "progress" /\ events[i].file = "s/C.PNG"

(***************************************************************************)
(* Every batch request is answered.                                        *)
(***************************************************************************)
\* C30: every POST request to /api/compress/run or /api/audio/compress is
\* answered and its response ended, with a JSON error response or an event
\* stream closed by a terminal event, for every body, including one that is
\* not valid JSON: once the handler has no step left, the response is ended
C30_Original ==
    bpc \in {"rejected", "closed", "crashed"} =>
        /\ ended
        /\ httpStatus # 0
        /\ httpStatus = 200 => Last(events).type \in {"complete", "error"}

=============================================================================
